---- MODULE Spec2Model ----
(***************************************************************************)
(* Model of src/streamlit_app.py: the fishery catch dashboard.             *)
(*                                                                         *)
(* The script is re-run from top to bottom on every user interaction.  One *)
(* run loads the (memoized) sample table, reads the two sidebar widgets,   *)
(* filters the table and renders either the metrics and charts or the      *)
(* warning with the preview of the unfiltered table.                       *)
(*                                                                         *)
(* Dates are day offsets from 2024-01-01; weights are hundredths of a kg   *)
(* (the generator rounds to 2 decimals), so sums are exact.                *)
(***************************************************************************)
EXTENDS Integers, Sequences, FiniteSets

VARIABLES
    num_records,      \* the record count generate_sample_data is called with
    cached,           \* st.cache_data holds the table for num_records
    gen_calls,        \* how often the body of generate_sample_data has run
    df,               \* the source table
    date_range,       \* value of the date_input widget: a tuple of 0..2 dates
    selected_sites,   \* value of the multiselect widget
    start_date,
    end_date,
    filtered_df,
    metrics,          \* <<>> or <<[total_catch, num_records_filtered, avg_catch_per_record]>>
    time_series_df,
    site_catch_df,
    gear_catch_df,
    species_catch_df,
    site_species_df,
    rendered,         \* the elements the run put on the page
    preview,          \* the rows of the "Original Sample Data" table
    first_page        \* the page of the first run, kept for comparison

vars == <<num_records, cached, gen_calls, df, date_range, selected_sites,
          start_date, end_date, filtered_df, metrics, time_series_df,
          site_catch_df, gear_catch_df, species_catch_df, site_species_df,
          rendered, preview, first_page>>

-----------------------------------------------------------------------------
(* Program constants *)

\* generate_sample_data(num_records=500)
DefaultRecords == 500

\* np.random.randint(0, 365*1.2): day offsets 0 .. WindowDays - 1
WindowDays == (365 * 12) \div 10

\* np.random.uniform(5, 150, n).round(2), in hundredths of a kg
MinWeight == 500
MaxWeight == 15000

\* df.head(100)
PreviewRows == 100

sites == <<"Fumba Bay", "Nungwi Reef", "Kizimkazi Channel", "Mnemba Atoll", "Paje Kelp Beds">>
species == <<"Tuna", "Snapper", "Grouper", "Mackerel", "Sardines", "Octopus", "Lobster">>
gear == <<"Longline", "Handline", "Net", "Trap", "Spear">>

Range(s) == {s[i] : i \in 1..Len(s)}

\* The key order of groupby(...) and of sorted(...): ascending, strings
\* lexicographically.
KeyOrder(field) ==
    CASE field = "Site" ->
           <<"Fumba Bay", "Kizimkazi Channel", "Mnemba Atoll", "Nungwi Reef", "Paje Kelp Beds">>
      [] field = "Species" ->
           <<"Grouper", "Lobster", "Mackerel", "Octopus", "Sardines", "Snapper", "Tuna">>
      [] field = "Gear_Type" ->
           <<"Handline", "Longline", "Net", "Spear", "Trap">>

-----------------------------------------------------------------------------
(* Bounds of the model and the values drawn *)

\* Tables of up to MaxRecords records are drawn record by record.
MaxRecords == 3

Record(d, site, sp, w, g) ==
    [Date |-> d, Site |-> site, Species |-> sp, Catch_Weight_kg |-> w,
     Gear_Type |-> g]

\* The records drawn: the three of the worked example (2024-01-01, 2024-01-02,
\* 2024-02-01), one at the end of the window with the largest weight, and two
\* that share a date, a site or a weight with the others.
RecordSamples ==
    { Record(0, "Fumba Bay", "Tuna", 1000, "Net"),
      Record(1, "Fumba Bay", "Snapper", 2000, "Trap"),
      Record(31, "Nungwi Reef", "Tuna", MinWeight, "Net"),
      Record(WindowDays - 1, "Nungwi Reef", "Snapper", MaxWeight, "Trap"),
      Record(1, "Nungwi Reef", "Tuna", 1000, "Trap"),
      Record(0, "Fumba Bay", "Snapper", MinWeight, "Net") }

\* The dates a user picks in the date input: those of the records and
\* 2024-01-31
InputDateSamples == {r.Date : r \in RecordSamples} \cup {30}

\* Larger tables (of the preview length, one more, and the default size) are
\* drawn as two runs of equal records.
LargeCounts == {PreviewRows, PreviewRows + 1, DefaultRecords}

BlockSamples ==
    { Record(0, "Fumba Bay", "Tuna", 1000, "Net"),
      Record(WindowDays - 1, "Nungwi Reef", "Snapper", MaxWeight, "Trap") }

\* What the random source may yield for n records (before sorting).
Draws(n) ==
    IF n <= MaxRecords
    THEN [1..n -> RecordSamples]
    ELSE { [i \in 1..n |-> IF i <= n \div 2 THEN a ELSE b] :
             a \in BlockSamples, b \in BlockSamples }

-----------------------------------------------------------------------------
(* generate_sample_data *)

MinOf(S) == CHOOSE x \in S : \A y \in S : x <= y

MaxOf(S) == CHOOSE x \in S : \A y \in S : y <= x

RECURSIVE SortedSeq(_)
SortedSeq(S) ==
    IF S = {} THEN <<>>
    ELSE LET m == MinOf(S) IN <<m>> \o SortedSeq(S \ {m})

Dates(t) == {t[i].Date : i \in 1..Len(t)}

\* The rows dated keys[1], then those dated keys[2], ..., up to keys[n], each
\* group in the order of recs
RECURSIVE RowsByDate(_, _, _)
RowsByDate(recs, keys, n) ==
    IF n = 0 THEN <<>>
    ELSE RowsByDate(recs, keys, n - 1)
            \o SelectSeq(recs, LAMBDA r : r.Date = keys[n])

\* A variant of sort_values_by_date: the rows stay in the order drawn
sort_values_by_date_unsorted(recs) == recs

\* df.sort_values(by='Date').reset_index(drop=True): ascending by date, rows
\* of one date in the order drawn
sort_values_by_date(recs) ==
    LET keys == SortedSeq(Dates(recs)) IN RowsByDate(recs, keys, Len(keys))

\* recs: the records the random source yields, in the order drawn
generate_sample_data(recs) == sort_values_by_date(recs)

-----------------------------------------------------------------------------
(* Sidebar filters *)

\* df['Date'].min(), df['Date'].max()
min_date(t) == MinOf(Dates(t))
max_date(t) == MaxOf(Dates(t))

\* sorted(df['Site'].unique()): the options of the multiselect
all_sites(t) == {t[i].Site : i \in 1..Len(t)}

\* A variant of DateBounds: a single date is taken as the start
DateBounds_keep_single(dr, lo, hi) ==
    IF Len(dr) = 2 THEN <<dr[1], dr[2]>>
    ELSE IF Len(dr) = 1 THEN <<dr[1], hi>>
    ELSE <<lo, hi>>

\* start_date, end_date: the defaults unless the widget gave two dates
DateBounds(dr, lo, hi) ==
    IF Len(dr) = 2 THEN <<dr[1], dr[2]>> ELSE <<lo, hi>>

\* The dates a user can pick: min_value <= d <= max_value
InputDates(t) == {d \in InputDateSamples : min_date(t) <= d /\ d <= max_date(t)}

\* The values date_input can return once two dates were picked
FullRanges(t) ==
    {p \in InputDates(t) \X InputDates(t) : p[1] <= p[2]}

\* ... and while fewer than two are picked
PartialRanges(t) == {<<>>} \cup {<<a>> : a \in InputDates(t)}

-----------------------------------------------------------------------------
(* Apply filters *)

\* A variant of apply_filters: the end date is excluded
apply_filters_end_exclusive(t, lo, hi, selected) ==
    SelectSeq(t, LAMBDA r : r.Date >= lo /\ r.Date < hi /\ r.Site \in selected)

\* A variant of apply_filters: no site selected counts as every site selected
apply_filters_empty_is_all(t, lo, hi, selected) ==
    SelectSeq(t, LAMBDA r : r.Date >= lo /\ r.Date <= hi
                              /\ (selected = {} \/ r.Site \in selected))

\* A variant of apply_filters: the mask lags the rows by one (row i is kept
\* when row i - 1 matches)
apply_filters_misaligned(t, lo, hi, selected) ==
    LET z == [i \in 1..Len(t) |->
                [row |-> t[i],
                 keep |-> /\ i > 1
                          /\ t[i - 1].Date >= lo
                          /\ t[i - 1].Date <= hi
                          /\ t[i - 1].Site \in selected]]
        kept == SelectSeq(z, LAMBDA x : x.keep)
    IN  [j \in 1..Len(kept) |-> kept[j].row]

\* filtered_df = df[(Date >= start_date) & (Date <= end_date) & Site.isin(...)]
apply_filters(t, lo, hi, selected) ==
    SelectSeq(t, LAMBDA r : r.Date >= lo /\ r.Date <= hi /\ r.Site \in selected)

-----------------------------------------------------------------------------
(* Aggregates *)

\* The sum of the weights of rows lo .. hi
RECURSIVE SumRange(_, _, _)
SumRange(t, lo, hi) ==
    IF lo > hi THEN 0
    ELSE IF lo = hi THEN t[lo].Catch_Weight_kg
    ELSE LET mid == (lo + hi) \div 2
         IN  SumRange(t, lo, mid) + SumRange(t, mid + 1, hi)

\* t['Catch_Weight_kg'].sum()
sum_weight(t) == SumRange(t, 1, Len(t))

\* t['Catch_Weight_kg'].mean(), as the exact quotient num / den
mean_weight(t) == [num |-> sum_weight(t), den |-> Len(t)]

\* The distinct keys of a groupby, in its (ascending) key order
GroupKeys(t, field) ==
    IF field = "Date"
    THEN SortedSeq(Dates(t))
    ELSE SelectSeq(KeyOrder(field),
                   LAMBDA k : \E i \in 1..Len(t) : t[i][field] = k)

\* One row of groupby(field)['Catch_Weight_kg'].sum().reset_index()
GroupRow(field, k, w) ==
    [f \in {field, "Catch_Weight_kg"} |-> IF f = field THEN k ELSE w]

\* A variant of groupby_sum: the first weight of each group (.first())
groupby_first(t, field) ==
    LET keys == GroupKeys(t, field)
    IN  [i \in 1..Len(keys) |->
           GroupRow(field, keys[i],
                    SelectSeq(t, LAMBDA r : r[field] = keys[i])[1].Catch_Weight_kg)]

\* groupby(field)['Catch_Weight_kg'].sum().reset_index()
groupby_sum(t, field) ==
    LET keys == GroupKeys(t, field)
    IN  [i \in 1..Len(keys) |->
           GroupRow(field, keys[i],
                    sum_weight(SelectSeq(t, LAMBDA r : r[field] = keys[i])))]

\* groupby(['Site', 'Species'])['Catch_Weight_kg'].sum().reset_index()
groupby_site_species_sum(t) ==
    LET ss == KeyOrder("Site")
        sp == KeyOrder("Species")
        pairs == [i \in 1..(Len(ss) * Len(sp)) |->
                    <<ss[((i - 1) \div Len(sp)) + 1], sp[((i - 1) % Len(sp)) + 1]>>]
        keys == SelectSeq(pairs,
                    LAMBDA p : \E i \in 1..Len(t) :
                                  t[i].Site = p[1] /\ t[i].Species = p[2])
    IN  [i \in 1..Len(keys) |->
           [Site |-> keys[i][1], Species |-> keys[i][2],
            Catch_Weight_kg |->
               sum_weight(SelectSeq(t,
                   LAMBDA r : r.Site = keys[i][1] /\ r.Species = keys[i][2]))]]

\* sort_values(by='Catch_Weight_kg', ascending=False), one insertion: the row
\* goes behind the rows whose sum is >= its own
InsertByWeightDesc(s, row) ==
    LET k == Cardinality({i \in 1..Len(s) :
                             s[i].Catch_Weight_kg >= row.Catch_Weight_kg})
    IN  SubSeq(s, 1, k) \o <<row>> \o SubSeq(s, k + 1, Len(s))

RECURSIVE SortPrefixByWeightDesc(_, _)
SortPrefixByWeightDesc(rows, n) ==
    IF n = 0 THEN <<>>
    ELSE InsertByWeightDesc(SortPrefixByWeightDesc(rows, n - 1), rows[n])

\* A variant of sort_values_by_weight_desc: ascending (ascending=False left
\* out)
sort_values_by_weight_asc(rows) ==
    LET d == SortPrefixByWeightDesc(rows, Len(rows))
    IN  [i \in 1..Len(d) |-> d[Len(d) + 1 - i]]

sort_values_by_weight_desc(rows) == SortPrefixByWeightDesc(rows, Len(rows))

\* A variant of head: the whole table
head_all(t, n) == t

\* t.head(n)
head(t, n) == SubSeq(t, 1, IF Len(t) < n THEN Len(t) ELSE n)

\* t.empty
empty(t) == Len(t) = 0

-----------------------------------------------------------------------------
(* One run of the script *)

\* What the run shows
Page ==
    <<start_date, end_date, filtered_df, metrics, time_series_df,
      site_catch_df, gear_catch_df, species_catch_df, site_species_df,
      rendered, preview>>

\* "Display Metrics/KPIs": the three metrics, or the warning
DisplayMetrics(f) ==
    IF ~empty(f)
    THEN <<[total_catch |-> sum_weight(f),
            num_records_filtered |-> Len(f),
            avg_catch_per_record |-> mean_weight(f)]>>
    ELSE <<>>

\* The script from the sidebar to the end, on the table t with the widget
\* values dr and sel
Script(t, dr, sel) ==
    LET b == DateBounds(dr, min_date(t), max_date(t))
        f == apply_filters(t, b[1], b[2], sel)
    IN  /\ date_range' = dr
        /\ selected_sites' = sel
        /\ start_date' = b[1]
        /\ end_date' = b[2]
        /\ filtered_df' = f
        /\ metrics' = DisplayMetrics(f)
        /\ IF ~empty(f)
           THEN /\ time_series_df' = groupby_sum(f, "Date")
                /\ site_catch_df' =
                       sort_values_by_weight_desc(groupby_sum(f, "Site"))
                /\ gear_catch_df' = groupby_sum(f, "Gear_Type")
                /\ species_catch_df' =
                       sort_values_by_weight_desc(groupby_sum(f, "Species"))
                /\ site_species_df' = groupby_site_species_sum(f)
                /\ rendered' = {"metrics", "fig_time", "fig_site", "fig_gear",
                                "fig_species", "fig_site_species", "filtered_df"}
                /\ preview' = <<>>
           ELSE /\ time_series_df' = <<>>
                /\ site_catch_df' = <<>>
                /\ gear_catch_df' = <<>>
                /\ species_catch_df' = <<>>
                /\ site_species_df' = <<>>
                /\ rendered' = {"warning", "preview"}
                /\ preview' = head(t, PreviewRows)

Init ==
    /\ num_records \in (1..MaxRecords) \cup LargeCounts
    /\ cached = FALSE
    /\ gen_calls = 0
    /\ df = <<>>
    /\ date_range = <<>>
    /\ selected_sites = {}
    /\ start_date = 0
    /\ end_date = 0
    /\ filtered_df = <<>>
    /\ metrics = <<>>
    /\ time_series_df = <<>>
    /\ site_catch_df = <<>>
    /\ gear_catch_df = <<>>
    /\ species_catch_df = <<>>
    /\ site_species_df = <<>>
    /\ rendered = {}
    /\ preview = <<>>
    /\ first_page = <<>>

\* The first run of the process: generate_sample_data misses the cache and
\* runs; the widgets have their default values.
FirstRun ==
    /\ ~cached
    /\ \E recs \in Draws(num_records) :
         LET t == generate_sample_data(recs)
         IN  /\ df' = t
             /\ Script(t, <<min_date(t), max_date(t)>>, all_sites(t))
    /\ cached' = TRUE
    /\ gen_calls' = gen_calls + 1
    /\ first_page' = <<date_range', selected_sites', Page'>>
    /\ UNCHANGED num_records

\* A variant of CachedTable: the filter of the last run has narrowed the
\* cached table in place
CachedTable_mutated == IF empty(filtered_df) THEN df ELSE filtered_df

\* generate_sample_data() when the cache holds the table
CachedTable == df

\* A later run: generate_sample_data returns the memoized table.
Rerun(dr, sel) ==
    /\ cached
    /\ df' = CachedTable
    /\ Script(df', dr, sel)
    /\ UNCHANGED <<num_records, cached, gen_calls, first_page>>

\* The user completes a date range.
PickDateRange ==
    /\ cached
    /\ \E dr \in FullRanges(df) : Rerun(dr, selected_sites)

\* The user has picked fewer than two dates.
PickPartialDateRange ==
    /\ cached
    /\ \E dr \in PartialRanges(df) : Rerun(dr, selected_sites)

\* The user changes the site selection.
SelectSites ==
    /\ cached
    /\ \E sel \in SUBSET all_sites(df) : Rerun(date_range, sel)

\* A variant of NewSession: generate_sample_data is not memoized and draws a
\* new table
NewSession_regenerate ==
    /\ cached
    /\ \E recs \in Draws(num_records) :
         LET t == generate_sample_data(recs)
         IN  /\ df' = t
             /\ Script(t, <<min_date(t), max_date(t)>>, all_sites(t))
    /\ gen_calls' = gen_calls + 1
    /\ UNCHANGED <<num_records, cached, first_page>>

\* A new browser session of the same process: the widgets are back at their
\* defaults.
NewSession ==
    /\ cached
    /\ Rerun(<<min_date(df), max_date(df)>>, all_sites(df))

Next ==
    \/ FirstRun
    \/ PickDateRange
    \/ PickPartialDateRange
    \/ SelectSites
    \/ NewSession

Spec == Init /\ [][Next]_vars

-----------------------------------------------------------------------------
(* Properties *)

DefaultRange == <<min_date(df), max_date(df)>>

\* The rows of df inside [start_date, end_date] whose site is selected
KeptRows ==
    {i \in 1..Len(df) : /\ start_date <= df[i].Date
                        /\ df[i].Date <= end_date
                        /\ df[i].Site \in selected_sites}

\* The table of the worked example
ExampleTable ==
    << Record(0, "Fumba Bay", "Tuna", 1000, "Net"),
       Record(1, "Fumba Bay", "Snapper", 2000, "Trap"),
       Record(31, "Nungwi Reef", "Tuna", 500, "Net") >>

ExampleFiltered ==
    /\ cached
    /\ df = ExampleTable
    /\ date_range = <<0, 30>>
    /\ selected_sites = {"Fumba Bay"}

\* C1: the filtered table is exactly the subsequence of the source table made
\* of the rows dated within [start_date, end_date] (both ends included) whose
\* site is selected: the k-th kept row of df is the k-th row of filtered_df and
\* there are no other rows.  On the worked example the first two records are
\* kept.
C1_FilterIsExactSubsequence ==
    cached =>
      /\ Len(filtered_df) = Cardinality(KeptRows)
      /\ \A i \in KeptRows :
            filtered_df[Cardinality({k \in KeptRows : k <= i})] = df[i]
      /\ ExampleFiltered =>
            filtered_df = <<ExampleTable[1], ExampleTable[2]>>

C1_Witness ==
    /\ ExampleFiltered
    /\ start_date = 0
    /\ end_date = 30
    /\ Len(filtered_df) = 2

\* C2 as stated: with a single date supplied, that date is one bound of the
\* filter and the table's min or max date is the other.
C2_SuppliedEndpointKept ==
    (cached /\ Len(date_range) = 1) =>
       \/ start_date = date_range[1] /\ end_date = max_date(df)
       \/ start_date = min_date(df) /\ end_date = date_range[1]

\* C2, amended: with fewer than two dates supplied the run completes and both
\* bounds are the table's min and max date (a single supplied date is not
\* used); the filtered table holds the rows of every date whose site is
\* selected.
C2_PartialRangeUsesDefaults ==
    (cached /\ Len(date_range) < 2) =>
       /\ start_date = min_date(df)
       /\ end_date = max_date(df)
       /\ Len(filtered_df) =
             Cardinality({i \in 1..Len(df) : df[i].Site \in selected_sites})
       /\ rendered # {}

C2_Witness ==
    /\ cached
    /\ Len(date_range) = 1
    /\ min_date(df) < date_range[1]
    /\ date_range[1] < max_date(df)
    /\ start_date = min_date(df)
    /\ end_date = max_date(df)
    /\ Len(filtered_df) = Len(df)

\* C3: with no site selected the filtered table is empty and the run shows
\* the warning and the preview.
C3_EmptySelectionIsEmpty ==
    (cached /\ selected_sites = {}) =>
       /\ filtered_df = <<>>
       /\ rendered = {"warning", "preview"}

C3_Witness ==
    /\ cached
    /\ selected_sites = {}
    /\ date_range = DefaultRange
    /\ Len(df) = 3
    /\ filtered_df = <<>>
    /\ "preview" \in rendered

AllAggregates ==
    <<time_series_df, site_catch_df, gear_catch_df, species_catch_df,
      site_species_df>>

\* C4: the filtered table is empty exactly when the warning and the preview
\* are shown; then the preview is the first min(100, N) rows of the source
\* table and no metric or aggregate is computed.  Otherwise the metrics (the
\* mean over at least one record) and all five aggregates are computed and
\* shown, and the preview is not.
C4_FallbackIffEmpty ==
    cached =>
      /\ empty(filtered_df) <=> ("warning" \in rendered /\ "preview" \in rendered)
      /\ empty(filtered_df) =>
            /\ Len(preview) =
                  (IF Len(df) < PreviewRows THEN Len(df) ELSE PreviewRows)
            /\ \A i \in 1..Len(preview) : preview[i] = df[i]
            /\ metrics = <<>>
            /\ AllAggregates = <<<<>>, <<>>, <<>>, <<>>, <<>>>>
            /\ rendered = {"warning", "preview"}
      /\ ~empty(filtered_df) =>
            /\ Len(metrics) = 1
            /\ metrics[1].num_records_filtered = Len(filtered_df)
            /\ metrics[1].avg_catch_per_record.den > 0
            /\ \A k \in 1..5 : AllAggregates[k] # <<>>
            /\ rendered = {"metrics", "fig_time", "fig_site", "fig_gear",
                           "fig_species", "fig_site_species", "filtered_df"}
            /\ preview = <<>>

C4_Witness ==
    /\ cached
    /\ empty(filtered_df)
    /\ Len(df) > PreviewRows
    /\ Len(preview) = PreviewRows
    /\ "warning" \in rendered

\* Each row of the table falls in exactly one row of the grouping by field
OneGroupEach(rows, field) ==
    \A i \in 1..Len(filtered_df) :
       Cardinality({j \in 1..Len(rows) : rows[j][field] = filtered_df[i][field]}) = 1

\* C5: for a non-empty filtered table the sums by site, by species, by gear,
\* by date and by (site, species) each add up to the total catch, and every
\* record falls in exactly one group of each grouping.
C5_GroupSumsPartitionTotal ==
    (cached /\ ~empty(filtered_df)) =>
       /\ metrics[1].total_catch = sum_weight(filtered_df)
       /\ \A k \in 1..5 : sum_weight(AllAggregates[k]) = metrics[1].total_catch
       /\ OneGroupEach(time_series_df, "Date")
       /\ OneGroupEach(site_catch_df, "Site")
       /\ OneGroupEach(gear_catch_df, "Gear_Type")
       /\ OneGroupEach(species_catch_df, "Species")
       /\ \A i \in 1..Len(filtered_df) :
             Cardinality({j \in 1..Len(site_species_df) :
                            /\ site_species_df[j].Site = filtered_df[i].Site
                            /\ site_species_df[j].Species = filtered_df[i].Species}) = 1

C5_Witness ==
    /\ cached
    /\ Len(filtered_df) = 3
    /\ Len(site_catch_df) = 2
    /\ Len(species_catch_df) = 2
    /\ Len(gear_catch_df) = 2
    /\ Len(time_series_df) = 2
    /\ Len(site_species_df) = 2

\* C6: the generated table has exactly num_records records, each with a
\* weight in [5, 150] kg, a date in the window (day 0 to 437), site, species
\* and gear from the vocabularies, and the dates are non-decreasing.
C6_GeneratedTable ==
    cached =>
      /\ Len(df) = num_records
      /\ \A i \in 1..Len(df) :
            /\ MinWeight <= df[i].Catch_Weight_kg
            /\ df[i].Catch_Weight_kg <= MaxWeight
            /\ df[i].Catch_Weight_kg > 0
            /\ df[i].Date \in 0..437
            /\ df[i].Site \in Range(sites)
            /\ df[i].Species \in Range(species)
            /\ df[i].Gear_Type \in Range(gear)
      /\ \A i \in 1..(Len(df) - 1) : df[i].Date <= df[i + 1].Date

C6_Witness ==
    /\ cached
    /\ num_records = 3
    /\ Len(df) = 3
    /\ df[1].Date = 0
    /\ df[2].Date = 0
    /\ df[3].Date = 437
    /\ df[3].Catch_Weight_kg = 15000
    /\ df[2].Catch_Weight_kg = 500

\* C7: once generated, the source table is never generated again and no run
\* (filter, aggregates or preview) changes it.
C7_SourceTableStable ==
    [][/\ cached => (df' = df /\ gen_calls' = gen_calls)
       /\ gen_calls' <= 1]_vars

C7_Witness ==
    /\ cached
    /\ gen_calls = 1
    /\ Len(df) = 3
    /\ Len(date_range) = 2
    /\ date_range # DefaultRange
    /\ preview = df

\* C8: filtering the filtered table again with the same bounds and sites
\* returns it unchanged.
C8_FilterIdempotent ==
    cached =>
      apply_filters(filtered_df, start_date, end_date, selected_sites) = filtered_df

C8_Witness ==
    /\ cached
    /\ Len(df) = 3
    /\ Len(filtered_df) = 2
    /\ date_range # DefaultRange
    /\ Len(date_range) = 2
    /\ selected_sites # all_sites(df)

\* Everything shown is what the script computes from df and the current
\* widget values
RecomputedInFull ==
    LET b == DateBounds(date_range, min_date(df), max_date(df))
        f == apply_filters(df, b[1], b[2], selected_sites)
    IN  /\ start_date = b[1]
        /\ end_date = b[2]
        /\ filtered_df = f
        /\ metrics = DisplayMetrics(f)
        /\ empty(f) =>
              /\ AllAggregates = <<<<>>, <<>>, <<>>, <<>>, <<>>>>
              /\ preview = head(df, PreviewRows)
        /\ ~empty(f) =>
              /\ time_series_df = groupby_sum(f, "Date")
              /\ site_catch_df = sort_values_by_weight_desc(groupby_sum(f, "Site"))
              /\ gear_catch_df = groupby_sum(f, "Gear_Type")
              /\ species_catch_df =
                    sort_values_by_weight_desc(groupby_sum(f, "Species"))
              /\ site_species_df = groupby_site_species_sum(f)
              /\ preview = <<>>

\* C9: what is shown depends on the source table and the current (interval,
\* sites) only: every run recomputes it in full, and whenever the widgets are
\* back at the values of the first run, whatever was entered in between, the
\* page is that of the first run.
C9_LatestSnapshotOnly ==
    cached =>
      /\ RecomputedInFull
      /\ (date_range = first_page[1] /\ selected_sites = first_page[2])
            => <<date_range, selected_sites, Page>> = first_page

C9_Witness ==
    /\ cached
    /\ Len(df) = 3
    /\ Len(date_range) = 2
    /\ date_range # DefaultRange
    /\ selected_sites # all_sites(df)
    /\ ~empty(filtered_df)
    /\ <<date_range, selected_sites, Page>> # first_page

\* C10: for a non-empty filtered table the sums by date have strictly
\* increasing dates, the sums by site and by species are non-increasing, and
\* each of them has one row per distinct key.
C10_OrderedAggregates ==
    (cached /\ ~empty(filtered_df)) =>
       /\ \A i \in 1..(Len(time_series_df) - 1) :
             time_series_df[i].Date < time_series_df[i + 1].Date
       /\ {time_series_df[i].Date : i \in 1..Len(time_series_df)} = Dates(filtered_df)
       /\ \A i \in 1..(Len(site_catch_df) - 1) :
             site_catch_df[i].Catch_Weight_kg >= site_catch_df[i + 1].Catch_Weight_kg
       /\ {site_catch_df[i].Site : i \in 1..Len(site_catch_df)} = all_sites(filtered_df)
       /\ Len(site_catch_df) = Cardinality(all_sites(filtered_df))
       /\ \A i \in 1..(Len(species_catch_df) - 1) :
             species_catch_df[i].Catch_Weight_kg
                >= species_catch_df[i + 1].Catch_Weight_kg
       /\ {species_catch_df[i].Species : i \in 1..Len(species_catch_df)}
             = {filtered_df[i].Species : i \in 1..Len(filtered_df)}
       /\ Len(species_catch_df)
             = Cardinality({filtered_df[i].Species : i \in 1..Len(filtered_df)})

C10_Witness ==
    /\ cached
    /\ Len(filtered_df) = 3
    /\ Len(time_series_df) = 2
    /\ Len(site_catch_df) = 2
    /\ site_catch_df[1].Site = "Nungwi Reef"
    /\ site_catch_df[1].Catch_Weight_kg > site_catch_df[2].Catch_Weight_kg
    /\ Len(species_catch_df) = 2
    /\ species_catch_df[1].Species = "Tuna"
    /\ species_catch_df[1].Catch_Weight_kg > species_catch_df[2].Catch_Weight_kg

====
